---- MODULE Spec2Model ----
(***************************************************************************)
(* A model of the useCustomFetch composable (src/unnamed/part_000, lines   *)
(* 1-365) and of the posts resource module built on it                     *)
(* (src/src/composables/posts.api.ts).                                     *)
(*                                                                         *)
(* Text (urls, query strings, bodies, header values) is a sequence of      *)
(* one-character strings, so that encoding and parsing are computed        *)
(* character by character.                                                 *)
(***************************************************************************)
EXTENDS Integers, Sequences, FiniteSets, TLC

VARIABLES
    mode,       \* which harness drives the code: "serializer", "hooks", "fetch"
    input,      \* serializer harness: the mapping handed to the serializer
    call,       \* serializer harness: the function applied last
    qsOut,      \* serializer harness: result of generateQueryString
    parsed,     \* serializer harness: the query string read back
    objOut,     \* serializer harness: result of removeNullishInObject
    envMode,    \* import.meta.env.MODE
    options,    \* the UseCustomFetchOptions the chains are built from
    hookIn,     \* hooks harness: the context handed to a chain
    hookOut,    \* hooks harness: the context the chain returned
    token,      \* the bearer token the auth step finds in the external store
    ctx,        \* the request context (BeforeFetchContext)
    request,    \* fetch harness: the fetch useApi(options)(url, ...) built
    phase,      \* fetch harness: where the current invocation stands
    executions, \* fetch harness: how many times the fetch was executed
    explicit,   \* fetch harness: the current invocation was started by execute()
    events,     \* fetch harness: what the current invocation did, in order
    sent,       \* fetch harness: the network calls of the current invocation
    pending,    \* fetch harness: data, response and error on their way to a hook
    afterCtx,   \* fetch harness: what the after-response chain returned
    errorCtx,   \* fetch harness: what the error-hook chain returned
    outcome     \* fetch harness: what the caller sees when the invocation ends

fetchVars ==
    <<request, phase, executions, explicit, events, sent, pending, afterCtx, errorCtx,
      outcome>>

vars == <<mode, input, call, qsOut, parsed, objOut, envMode, options, hookIn, hookOut,
          token, ctx, fetchVars>>

(***************************************************************************)
(* Bounds                                                                  *)
(***************************************************************************)
MaxArrLen == 2

(***************************************************************************)
(* JavaScript values of type RequestInputs (plus null and undefined, which *)
(* callers can pass through MaybeRef<Record<...>> at run time).            *)
(***************************************************************************)
JStr(s)  == [t |-> "string",    s |-> s,    n |-> 0, b |-> FALSE, a |-> <<>>, o |-> <<>>]
JNum(n)  == [t |-> "number",    s |-> <<>>, n |-> n, b |-> FALSE, a |-> <<>>, o |-> <<>>]
JBool(b) == [t |-> "boolean",   s |-> <<>>, n |-> 0, b |-> b,     a |-> <<>>, o |-> <<>>]
JNull    == [t |-> "null",      s |-> <<>>, n |-> 0, b |-> FALSE, a |-> <<>>, o |-> <<>>]
JUndef   == [t |-> "undefined", s |-> <<>>, n |-> 0, b |-> FALSE, a |-> <<>>, o |-> <<>>]
JArr(a)  == [t |-> "array",     s |-> <<>>, n |-> 0, b |-> FALSE, a |-> a,    o |-> <<>>]
\* an object is the sequence of its entries [k |-> key, v |-> value]
JObj(o)  == [t |-> "object",    s |-> <<>>, n |-> 0, b |-> FALSE, a |-> <<>>, o |-> o]

\* RequestInput = string | number | boolean
RequestInput ==
    { JStr(<<>>), JStr(<<"2">>), JStr(<<"3">>), JStr(<<"a", " ", "&">>),
      JNum(0), JNum(17), JBool(FALSE), JBool(TRUE) }

\* elements the arrays of the model are built from
ArrayElement == { JStr(<<>>), JStr(<<"2">>), JStr(<<"3">>), JNum(0), JBool(FALSE) }

SeqUpTo(S, n) == UNION { [1..k -> S] : k \in 0..n }

\* RequestInputs = RequestInput | RequestInput[]
RequestInputs ==
    RequestInput \cup { JArr(a) : a \in SeqUpTo(ArrayElement, MaxArrLen) }

\* what a mapping can hold at run time
AnyValue == RequestInputs \cup { JNull, JUndef }

Keys == { <<"a">>, <<"b">> }

\* A mapping is the sequence of its entries, in the order Object.entries
\* enumerates them (the order of insertion, for keys that are not written
\* as integers); its keys are distinct.
Mapping ==
    { m \in SeqUpTo([k : Keys, v : AnyValue], Cardinality(Keys)) :
        \A i, j \in 1..Len(m) : m[i].k = m[j].k => i = j }

(***************************************************************************)
(* JavaScript primitives used by the code                                  *)
(***************************************************************************)
IsArray(v) == v.t = "array"

\* truthiness of a value, as `if (value)` tests it
Truthy(v) ==
    CASE v.t = "string"  -> Len(v.s) > 0
      [] v.t = "number"  -> v.n # 0
      [] v.t = "boolean" -> v.b
      [] v.t = "array"   -> TRUE
      [] OTHER           -> FALSE

Digit(d) ==
    CASE d = 0 -> "0" [] d = 1 -> "1" [] d = 2 -> "2" [] d = 3 -> "3"
      [] d = 4 -> "4" [] d = 5 -> "5" [] d = 6 -> "6" [] d = 7 -> "7"
      [] d = 8 -> "8" [] d = 9 -> "9"

RECURSIVE NumToString(_)
NumToString(n) ==
    IF n < 10 THEN << Digit(n) >>
    ELSE NumToString(n \div 10) \o << Digit(n % 10) >>

\* value.toString() for a RequestInput
toString(v) ==
    CASE v.t = "string"  -> v.s
      [] v.t = "number"  -> NumToString(v.n)
      [] v.t = "boolean" -> IF v.b THEN <<"t", "r", "u", "e">>
                                   ELSE <<"f", "a", "l", "s", "e">>

(***************************************************************************)
(* URLSearchParams: a list of name/value pairs and its serialisation       *)
(* (application/x-www-form-urlencoded).                                    *)
(***************************************************************************)
PercentEncode(c) ==
    CASE c = " " -> <<"+">>
      [] c = "&" -> <<"%", "2", "6">>
      [] c = "=" -> <<"%", "3", "D">>
      [] c = "+" -> <<"%", "2", "B">>
      [] c = "%" -> <<"%", "2", "5">>
      [] c = "?" -> <<"%", "3", "F">>
      [] OTHER   -> << c >>

RECURSIVE UrlEncode(_)
UrlEncode(s) ==
    IF s = <<>> THEN <<>> ELSE PercentEncode(Head(s)) \o UrlEncode(Tail(s))

RECURSIVE ParamsToString(_)
ParamsToString(params) ==
    IF params = <<>> THEN <<>>
    ELSE LET p    == Head(params)
             this == UrlEncode(p.name) \o <<"=">> \o UrlEncode(p.value)
         IN  IF Len(params) = 1 THEN this
             ELSE this \o <<"&">> \o ParamsToString(Tail(params))

\* mutant: elements are appended only when truthy, as scalars are
RECURSIVE AppendEach_SkipsFalsy(_, _)
AppendEach_SkipsFalsy(key, arr) ==
    IF arr = <<>> THEN <<>>
    ELSE (IF Truthy(Head(arr))
          THEN << [name |-> key, value |-> toString(Head(arr))] >> ELSE <<>>)
         \o AppendEach_SkipsFalsy(key, Tail(arr))

\* value.forEach(el => query.append(key, el.toString()))
RECURSIVE AppendEach(_, _)
AppendEach(key, arr) ==
    IF arr = <<>> THEN <<>>
    ELSE << [name |-> key, value |-> toString(Head(arr))] >>
         \o AppendEach(key, Tail(arr))

\* Array.prototype.toString: the elements joined by ","
RECURSIVE JoinWithComma(_)
JoinWithComma(arr) ==
    IF arr = <<>> THEN <<>>
    ELSE toString(Head(arr))
         \o (IF Len(arr) = 1 THEN <<>> ELSE <<",">> \o JoinWithComma(Tail(arr)))

\* mutant: no Array.isArray branch, an array is appended as one parameter
EntryParams_NoArrayBranch(e) ==
    IF IsArray(e.v) THEN << [name |-> e.k, value |-> JoinWithComma(e.v.a)] >>
    ELSE IF Truthy(e.v) THEN << [name |-> e.k, value |-> toString(e.v)] >>
    ELSE <<>>

\* the parameters one entry of the mapping appends
EntryParams(e) ==
    IF IsArray(e.v) THEN AppendEach(e.k, e.v.a)
    ELSE IF Truthy(e.v) THEN << [name |-> e.k, value |-> toString(e.v)] >>
    ELSE <<>>

\* the URLSearchParams after the for-of loop over Object.entries(queryData)
RECURSIVE QueryParams(_)
QueryParams(queryData) ==
    IF queryData = <<>> THEN <<>>
    ELSE EntryParams(Head(queryData)) \o QueryParams(Tail(queryData))

generateQueryString(queryData) ==
    LET queryString == ParamsToString(QueryParams(queryData))
    IN  IF Len(queryString) > 0 THEN <<"?">> \o queryString ELSE <<>>

\* Object.fromEntries(Object.entries(obj).filter(([_, v]) => v !== "" && ...))
Nullish(v) == (v.t = "string" /\ v.s = <<>>) \/ v.t = "undefined" \/ v.t = "null"

\* mutant: only null and undefined are removed (v != null)
removeNullishInObject_KeepsEmptyString(obj) ==
    SelectSeq(obj, LAMBDA e : ~(e.v.t = "undefined" \/ e.v.t = "null"))

removeNullishInObject(obj) == SelectSeq(obj, LAMBDA e : ~Nullish(e.v))

(***************************************************************************)
(* JSON.stringify of the values the body step encodes                      *)
(***************************************************************************)
Quote(s) == <<"\"">> \o s \o <<"\"">>

RECURSIVE JSONStringifyValue(_), JSONStringifyItems(_), JSONStringifyEntries(_)
JSONStringifyValue(v) ==
    CASE v.t = "string"  -> Quote(v.s)
      [] v.t = "number"  -> NumToString(v.n)
      [] v.t = "boolean" -> toString(v)
      [] v.t = "array"   -> <<"[">> \o JSONStringifyItems(v.a) \o <<"]">>
      [] v.t = "object"  -> <<"{">> \o JSONStringifyEntries(v.o) \o <<"}">>
      [] OTHER           -> <<"n", "u", "l", "l">>

JSONStringifyItems(a) ==
    IF a = <<>> THEN <<>>
    ELSE JSONStringifyValue(Head(a))
         \o (IF Len(a) = 1 THEN <<>> ELSE <<",">> \o JSONStringifyItems(Tail(a)))

\* properties whose value is undefined are left out
JSONStringifyEntries(o) ==
    LET kept == SelectSeq(o, LAMBDA e : e.v.t # "undefined")
    IN  IF kept = <<>> THEN <<>>
        ELSE Quote(Head(kept).k) \o <<":">> \o JSONStringifyValue(Head(kept).v)
             \o (IF Len(kept) = 1 THEN <<>>
                 ELSE <<",">> \o JSONStringifyEntries(Tail(kept)))

JSONStringify(obj) == JSONStringifyValue(JObj(obj))

(***************************************************************************)
(* Options (UseCustomFetchOptions).  An optional mapping is                *)
(* [present |-> FALSE] when the option is left out; a schema option is the *)
(* name of the schema, "undefined" when left out.                          *)
(***************************************************************************)
Absent == [present |-> FALSE, value |-> <<>>]
Given(m) == [present |-> TRUE, value |-> m]

\* toValue(ref): the mapping behind a MaybeRef
toValue(ref) == ref.value

(***************************************************************************)
(* The request context handed to the before-request chain.  log and raised *)
(* are history fields of the model: the steps fetchCurryFn has applied, in *)
(* order, and the exception thrown by a step ("none" when none).           *)
(***************************************************************************)
NoBody == [present |-> FALSE, text |-> <<>>]

Header(name, value) == [name |-> name, value |-> value]

\* { ...headers, [name]: value }: the entry is replaced in place when the
\* name is there already, and added after the others when it is not
SpreadWith(headers, name, value) ==
    IF \E i \in 1..Len(headers) : headers[i].name = name
    THEN [i \in 1..Len(headers) |->
            IF headers[i].name = name THEN Header(name, value) ELSE headers[i]]
    ELSE Append(headers, Header(name, value))

HasHeader(headers, name) == \E i \in 1..Len(headers) : headers[i].name = name

HeaderValue(headers, name) ==
    LET i == CHOOSE j \in 1..Len(headers) : headers[j].name = name
    IN  headers[i].value

\* ctx => ctx
noActionContext(c) == c

Bearer == <<"B", "e", "a", "r", "e", "r", " ">>

SourceToken == JStr(<<"<", "t", "o", "k", "e", "n", ">">>)

\* mutant: without a token the context is returned as it is, not cancelled
getAuthorizationBeforeFetch_NoCancel(isBearerTokenRequired, c) ==
    IF ~isBearerTokenRequired THEN noActionContext(c)
    ELSE IF ~Truthy(token) THEN c
    ELSE [c EXCEPT !.headers = SpreadWith(c.headers, "Authorization", Bearer \o token.s)]

getAuthorizationBeforeFetch(isBearerTokenRequired, c) ==
    IF ~isBearerTokenRequired THEN noActionContext(c)
    ELSE IF ~Truthy(token) THEN [c EXCEPT !.cancelled = TRUE]
    ELSE [c EXCEPT !.headers = SpreadWith(c.headers, "Authorization", Bearer \o token.s)]

getQueryBeforeFetch(query, c) ==
    IF ~query.present THEN noActionContext(c)
    ELSE IF Len(toValue(query)) = 0 THEN noActionContext(c)
    ELSE [c EXCEPT !.url = c.url \o generateQueryString(toValue(query))]

ApplicationJson == <<"application/json">>

\* mutant: the headers are replaced, not spread
getJsonFormatBeforeFetch_DropsHeaders(jsonInput, c) ==
    IF ~jsonInput.present THEN noActionContext(c)
    ELSE [c EXCEPT
            !.headers = << Header("Content-Type", ApplicationJson) >>,
            !.body = [present |-> TRUE,
                      text |-> JSONStringify(removeNullishInObject(toValue(jsonInput)))]]

getJsonFormatBeforeFetch(jsonInput, c) ==
    IF ~jsonInput.present THEN noActionContext(c)
    ELSE [c EXCEPT
            !.headers = SpreadWith(c.headers, "Content-Type", ApplicationJson),
            !.body = [present |-> TRUE,
                      text |-> JSONStringify(removeNullishInObject(toValue(jsonInput)))]]

(***************************************************************************)
(* zod schemas and safeParse.  A schema is a record of one shape:          *)
(* kind, shape (the entries of an object schema) and element (the element  *)
(* schema of an array schema, as a sequence of length one).                *)
(***************************************************************************)
ZString    == [kind |-> "string",    shape |-> <<>>, element |-> <<>>]
ZNumber    == [kind |-> "number",    shape |-> <<>>, element |-> <<>>]
ZObject(o) == [kind |-> "object",    shape |-> o,    element |-> <<>>]
ZArray(e)  == [kind |-> "array",     shape |-> <<>>, element |-> << e >>]
\* the option left out
NoSchema   == [kind |-> "undefined", shape |-> <<>>, element |-> <<>>]

HasKey(o, k) == \E i \in 1..Len(o) : o[i].k = k

Get(o, k) == o[CHOOSE i \in 1..Len(o) : o[i].k = k].v

\* schema.safeParse(data).success; an object schema ignores unknown keys
RECURSIVE safeParse(_, _)
safeParse(schema, data) ==
    CASE schema.kind = "string" -> data.t = "string"
      [] schema.kind = "number" -> data.t = "number"
      [] schema.kind = "object" ->
            /\ data.t = "object"
            /\ \A i \in 1..Len(schema.shape) :
                   /\ HasKey(data.o, schema.shape[i].k)
                   /\ safeParse(schema.shape[i].v, Get(data.o, schema.shape[i].k))
      [] schema.kind = "array" ->
            /\ data.t = "array"
            /\ \A i \in 1..Len(data.a) : safeParse(schema.element[1], data.a[i])

(***************************************************************************)
(* JSON.parse, for texts without escapes, fractions or exponents.          *)
(* ParseValue(s, i) reads one value starting at s[i] and returns           *)
(* [ok, v, next]; JSONParse(s) fails unless the whole text is one value.   *)
(***************************************************************************)
IsDigit(c) == c \in {"0", "1", "2", "3", "4", "5", "6", "7", "8", "9"}

DigitValue(c) == CHOOSE d \in 0..9 : Digit(d) = c

RECURSIVE SkipSpace(_, _)
SkipSpace(s, i) == IF i <= Len(s) /\ s[i] = " " THEN SkipSpace(s, i + 1) ELSE i

ParseFail == [ok |-> FALSE, v |-> JUndef, next |-> 0]

StartsWith(s, i, word) ==
    /\ i + Len(word) - 1 <= Len(s)
    /\ SubSeq(s, i, i + Len(word) - 1) = word

\* a string literal starting at the quote s[i]
ParseStringLit(s, i) ==
    IF \E j \in (i + 1)..Len(s) : s[j] = "\""
    THEN LET j == CHOOSE k \in (i + 1)..Len(s) :
                      s[k] = "\"" /\ \A l \in (i + 1)..(k - 1) : s[l] # "\""
         IN  [ok |-> TRUE, v |-> JStr(SubSeq(s, i + 1, j - 1)), next |-> j + 1]
    ELSE ParseFail

RECURSIVE ParseDigits(_, _, _)
ParseDigits(s, i, acc) ==
    IF i <= Len(s) /\ IsDigit(s[i])
    THEN ParseDigits(s, i + 1, 10 * acc + DigitValue(s[i]))
    ELSE [ok |-> TRUE, v |-> JNum(acc), next |-> i]

\* a number: 0, or a digit 1-9 followed by digits
ParseNumber(s, i) ==
    IF s[i] = "0" THEN [ok |-> TRUE, v |-> JNum(0), next |-> i + 1]
    ELSE ParseDigits(s, i, 0)

RECURSIVE ParseValue(_, _), ParseMembers(_, _, _), ParseElements(_, _, _)
ParseValue(s, at) ==
    LET i == SkipSpace(s, at)
    IN  IF i > Len(s) THEN ParseFail
        ELSE IF s[i] = "{" THEN
            LET j == SkipSpace(s, i + 1)
            IN  IF j <= Len(s) /\ s[j] = "}"
                THEN [ok |-> TRUE, v |-> JObj(<<>>), next |-> j + 1]
                ELSE ParseMembers(s, j, <<>>)
        ELSE IF s[i] = "[" THEN
            LET j == SkipSpace(s, i + 1)
            IN  IF j <= Len(s) /\ s[j] = "]"
                THEN [ok |-> TRUE, v |-> JArr(<<>>), next |-> j + 1]
                ELSE ParseElements(s, j, <<>>)
        ELSE IF s[i] = "\"" THEN ParseStringLit(s, i)
        ELSE IF IsDigit(s[i]) THEN ParseNumber(s, i)
        ELSE IF StartsWith(s, i, <<"t", "r", "u", "e">>)
            THEN [ok |-> TRUE, v |-> JBool(TRUE), next |-> i + 4]
        ELSE IF StartsWith(s, i, <<"f", "a", "l", "s", "e">>)
            THEN [ok |-> TRUE, v |-> JBool(FALSE), next |-> i + 5]
        ELSE IF StartsWith(s, i, <<"n", "u", "l", "l">>)
            THEN [ok |-> TRUE, v |-> JNull, next |-> i + 4]
        ELSE ParseFail

\* "key": value, then "," and more members, or "}"; a repeated key keeps
\* its place and takes the later value
ParseMembers(s, at, acc) ==
    LET i == SkipSpace(s, at)
    IN  IF i > Len(s) \/ s[i] # "\"" THEN ParseFail
        ELSE LET key == ParseStringLit(s, i)
                 c   == SkipSpace(s, key.next)
             IN  IF ~key.ok \/ c > Len(s) \/ s[c] # ":" THEN ParseFail
                 ELSE LET val  == ParseValue(s, c + 1)
                          e    == SkipSpace(s, val.next)
                          more == IF HasKey(acc, key.v.s)
                                  THEN [x \in 1..Len(acc) |->
                                          IF acc[x].k = key.v.s
                                          THEN [k |-> key.v.s, v |-> val.v] ELSE acc[x]]
                                  ELSE Append(acc, [k |-> key.v.s, v |-> val.v])
                      IN  IF ~val.ok \/ e > Len(s) THEN ParseFail
                          ELSE IF s[e] = "}"
                              THEN [ok |-> TRUE, v |-> JObj(more), next |-> e + 1]
                          ELSE IF s[e] = "," THEN ParseMembers(s, e + 1, more)
                          ELSE ParseFail

ParseElements(s, at, acc) ==
    LET val  == ParseValue(s, at)
        e    == SkipSpace(s, val.next)
        more == Append(acc, val.v)
    IN  IF ~val.ok \/ e > Len(s) THEN ParseFail
        ELSE IF s[e] = "]" THEN [ok |-> TRUE, v |-> JArr(more), next |-> e + 1]
        ELSE IF s[e] = "," THEN ParseElements(s, e + 1, more)
        ELSE ParseFail

\* [ok |-> FALSE] stands for the SyntaxError JSON.parse throws
JSONParse(s) ==
    LET r == ParseValue(s, 1)
    IN  IF r.ok /\ SkipSpace(s, r.next) = Len(s) + 1 THEN r ELSE ParseFail

(***************************************************************************)
(* The after-response chain and the error-hook chain.  A context carries   *)
(* the history fields log, raised and console (what the step printed).     *)
(***************************************************************************)
TYPE_ERROR == "TYPE_ERROR"
SERVER_ERROR == "SERVER_ERROR"
ABORT_ERROR == "ABORT_ERROR"

ApiErrorStatus == { TYPE_ERROR, SERVER_ERROR, ABORT_ERROR }

\* new TypeError(ApiErrorStatus.TYPE_ERROR)
TypeErrorOf(status) == "TypeError: " \o status

\* console.group(label); console.log(error); console.groupEnd()
LogTypeError(c, label) ==
    IF envMode # "production" THEN [c EXCEPT !.console = Append(@, label)] ELSE c

errorSchemaAfterFetch(errorResponseSchema, c) ==
    IF errorResponseSchema = NoSchema THEN noActionContext(c)
    ELSE IF c.response.ok THEN c
    ELSE IF ~safeParse(errorResponseSchema, c.data)
         THEN [LogTypeError(c, "[api error] type error")
                  EXCEPT !.raised = TypeErrorOf(TYPE_ERROR)]
    ELSE c

\* mutant: the mismatch is logged and the context returned, as the error hook does
responseSchemaAfterFetch_LogsOnly(responseSchema, c) ==
    IF responseSchema = NoSchema THEN noActionContext(c)
    ELSE IF ~c.response.ok THEN c
    ELSE IF ~safeParse(responseSchema, c.data)
         THEN LogTypeError(c, "[api response] type error")
    ELSE c

responseSchemaAfterFetch(responseSchema, c) ==
    IF responseSchema = NoSchema THEN noActionContext(c)
    ELSE IF ~c.response.ok THEN c
    ELSE IF ~safeParse(responseSchema, c.data)
         THEN [LogTypeError(c, "[api response] type error")
                  EXCEPT !.raised = TypeErrorOf(TYPE_ERROR)]
    ELSE c

typeErrorOnFetchError(c) == IF c.error = TYPE_ERROR THEN c ELSE c

timeOutErrorOnFetchError(c) == IF c.error = ABORT_ERROR THEN c ELSE c

responseNullOnFetchError(c) == IF ~c.response.present THEN c ELSE c

\* mutant: the mismatch is thrown, as the after-response steps do
errorSchemaOnFetchError_Throws(errorResponseSchema, c) ==
    IF errorResponseSchema = NoSchema THEN noActionContext(c)
    ELSE IF c.data.t = "string" /\ ~JSONParse(c.data.s).ok
         THEN [c EXCEPT !.raised = "SyntaxError"]
    ELSE LET responseData == IF c.data.t = "string" THEN JSONParse(c.data.s).v
                             ELSE c.data
         IN  IF ~safeParse(errorResponseSchema, responseData)
             THEN [LogTypeError(c, "[api error] type error")
                      EXCEPT !.raised = TypeErrorOf(TYPE_ERROR)]
             ELSE c

errorSchemaOnFetchError(errorResponseSchema, c) ==
    IF errorResponseSchema = NoSchema THEN noActionContext(c)
    ELSE IF c.data.t = "string" /\ ~JSONParse(c.data.s).ok
         THEN [c EXCEPT !.raised = "SyntaxError"]
    ELSE LET responseData == IF c.data.t = "string" THEN JSONParse(c.data.s).v
                             ELSE c.data
         IN  IF ~safeParse(errorResponseSchema, responseData)
             THEN LogTypeError(c, "[api error] type error")
             ELSE c

\* one function of a chain applied to the context
Step(fn, opts, c) ==
    CASE fn = "getAuthorizationBeforeFetch" ->
            getAuthorizationBeforeFetch(opts.isBearerTokenRequired, c)
      [] fn = "getQueryBeforeFetch" -> getQueryBeforeFetch(opts.query, c)
      [] fn = "getJsonFormatBeforeFetch" -> getJsonFormatBeforeFetch(opts.json, c)
      [] fn = "responseSchemaAfterFetch" ->
            responseSchemaAfterFetch(opts.responseSchema, c)
      [] fn = "errorSchemaAfterFetch" ->
            errorSchemaAfterFetch(opts.errorResponseSchema, c)
      [] fn = "typeErrorOnFetchError" -> typeErrorOnFetchError(c)
      [] fn = "timeOutErrorOnFetchError" -> timeOutErrorOnFetchError(c)
      [] fn = "responseNullOnFetchError" -> responseNullOnFetchError(c)
      [] fn = "errorSchemaOnFetchError" ->
            errorSchemaOnFetchError(opts.errorResponseSchema, c)

\* fnList.reduce((acc, fn) => fn(acc), ctx); a step that throws ends the fold
RECURSIVE fetchCurryFn(_, _, _)
fetchCurryFn(c, fnList, opts) ==
    IF fnList = <<>> \/ c.raised # "none" THEN c
    ELSE LET acc == Step(Head(fnList), opts, [c EXCEPT !.log = Append(@, Head(fnList))])
         IN  fetchCurryFn(acc, Tail(fnList), opts)

BeforeFetchList ==
    << "getAuthorizationBeforeFetch", "getQueryBeforeFetch", "getJsonFormatBeforeFetch" >>

getBeforeFetch(opts, c) == fetchCurryFn(c, BeforeFetchList, opts)

AfterFetchList == << "responseSchemaAfterFetch", "errorSchemaAfterFetch" >>

getAfterFetch(opts, c) == fetchCurryFn(c, AfterFetchList, opts)

OnFetchErrorList ==
    << "typeErrorOnFetchError", "timeOutErrorOnFetchError",
       "responseNullOnFetchError", "errorSchemaOnFetchError" >>

getOnFetchError(opts, c) == fetchCurryFn(c, OnFetchErrorList, opts)

(***************************************************************************)
(* Reading a query string back: the leading "?" is dropped, the rest is    *)
(* split at "&" and each piece at its first "=", names and values are      *)
(* decoded, and the values of a repeated key are collected, in order, into *)
(* a sequence.                                                             *)
(***************************************************************************)
HexChar(a, b) ==
    CASE a = "2" /\ b = "6" -> "&"
      [] a = "3" /\ b = "D" -> "="
      [] a = "2" /\ b = "B" -> "+"
      [] a = "2" /\ b = "5" -> "%"
      [] a = "3" /\ b = "F" -> "?"
      [] a = "2" /\ b = "0" -> " "
      [] OTHER -> "?"

RECURSIVE UrlDecode(_)
UrlDecode(s) ==
    IF s = <<>> THEN <<>>
    ELSE IF Head(s) = "+" THEN <<" ">> \o UrlDecode(Tail(s))
    ELSE IF Head(s) = "%" /\ Len(s) >= 3
         THEN << HexChar(s[2], s[3]) >> \o UrlDecode(SubSeq(s, 4, Len(s)))
    ELSE << Head(s) >> \o UrlDecode(Tail(s))

\* the pieces of s between occurrences of sep
RECURSIVE Split(_, _)
Split(s, sep) ==
    IF \A i \in 1..Len(s) : s[i] # sep THEN << s >>
    ELSE LET i == CHOOSE k \in 1..Len(s) :
                      s[k] = sep /\ \A l \in 1..(k - 1) : s[l] # sep
         IN  << SubSeq(s, 1, i - 1) >> \o Split(SubSeq(s, i + 1, Len(s)), sep)

ParsePair(piece) ==
    IF \A i \in 1..Len(piece) : piece[i] # "="
    THEN [name |-> UrlDecode(piece), value |-> <<>>]
    ELSE LET i == CHOOSE k \in 1..Len(piece) :
                      piece[k] = "=" /\ \A l \in 1..(k - 1) : piece[l] # "="
         IN  [name  |-> UrlDecode(SubSeq(piece, 1, i - 1)),
              value |-> UrlDecode(SubSeq(piece, i + 1, Len(piece)))]

\* the name/value pairs of a query string, in order
ParsePairs(qs) ==
    LET bare   == IF qs # <<>> /\ Head(qs) = "?" THEN Tail(qs) ELSE qs
        pieces == SelectSeq(Split(bare, "&"), LAMBDA x : x # <<>>)
    IN  [i \in 1..Len(pieces) |-> ParsePair(pieces[i])]

ValuesOf(pairs, name) ==
    LET mine == SelectSeq(pairs, LAMBDA x : x.name = name)
    IN  [i \in 1..Len(mine) |-> mine[i].value]

\* the names of the pairs, each once, in the order of first appearance
RECURSIVE NamesOf(_)
NamesOf(pairs) ==
    IF pairs = <<>> THEN <<>>
    ELSE LET before == NamesOf(SubSeq(pairs, 1, Len(pairs) - 1))
             last   == pairs[Len(pairs)].name
         IN  IF \E i \in 1..Len(before) : before[i] = last
             THEN before ELSE Append(before, last)

ParseQueryString(qs) ==
    LET pairs == ParsePairs(qs)
        names == NamesOf(pairs)
    IN  [i \in 1..Len(names) |->
            LET vs == ValuesOf(pairs, names[i])
            IN  [k |-> names[i],
                 v |-> IF Len(vs) = 1 THEN JStr(vs[1])
                       ELSE JArr([x \in 1..Len(vs) |-> JStr(vs[x])])]]

(***************************************************************************)
(* Serializer harness: a mapping is chosen, the serializer functions are   *)
(* applied to it, and the query and body steps built from it are applied   *)
(* to a request context.                                                   *)
(***************************************************************************)
NewContext(url, headers) ==
    [url |-> url, headers |-> headers, body |-> NoBody, cancelled |-> FALSE,
     log |-> <<>>, raised |-> "none"]

PostsPath == <<"/", "p", "o", "s", "t", "s">>

HarnessHeaders == << Header("Accept", <<"*/*">>) >>

DefaultOptions ==
    [isBearerTokenRequired |-> FALSE, query |-> Absent, json |-> Absent,
     responseSchema |-> NoSchema, errorResponseSchema |-> NoSchema]

NoContext == [log |-> <<>>, raised |-> "none", console |-> <<>>]

hookVars == <<envMode, options, hookIn, hookOut>>

\* a Response, or null
Response(ok, status) == [present |-> TRUE, ok |-> ok, status |-> status]
NullResponse == [present |-> FALSE, ok |-> FALSE, status |-> 0]

NoRequest == [op |-> "none", id |-> <<>>, path |-> <<>>, method |-> "GET", headers |-> <<>>]

NoPending == [data |-> JNull, response |-> NullResponse, error |-> "none"]

\* the state of a fetch that is not being executed
NoInvocation ==
    /\ phase = "idle"
    /\ executions = 0
    /\ explicit = FALSE
    /\ events = <<>>
    /\ sent = <<>>
    /\ pending = NoPending
    /\ afterCtx = NoContext
    /\ errorCtx = NoContext
    /\ outcome = "none"

InitSerializer ==
    /\ mode = "serializer"
    /\ input \in Mapping
    /\ call = "none"
    /\ qsOut = <<>>
    /\ parsed = <<>>
    /\ objOut = <<>>
    /\ token = SourceToken
    /\ ctx = NewContext(PostsPath, HarnessHeaders)
    /\ envMode = "development"
    /\ options = DefaultOptions
    /\ hookIn = NoContext
    /\ hookOut = NoContext
    /\ request = NoRequest
    /\ NoInvocation

CallGenerateQueryString ==
    /\ mode = "serializer"
    /\ call = "none"
    /\ call' = "generateQueryString"
    /\ qsOut' = generateQueryString(input)
    /\ UNCHANGED <<mode, input, parsed, objOut, token, ctx, hookVars, fetchVars>>

CallParseQueryString ==
    /\ mode = "serializer"
    /\ call = "generateQueryString"
    /\ call' = "parse"
    /\ parsed' = ParseQueryString(qsOut)
    /\ UNCHANGED <<mode, input, qsOut, objOut, token, ctx, hookVars, fetchVars>>

CallRemoveNullishInObject ==
    /\ mode = "serializer"
    /\ call = "parse"
    /\ call' = "removeNullishInObject"
    /\ objOut' = removeNullishInObject(input)
    /\ UNCHANGED <<mode, input, qsOut, parsed, token, ctx, hookVars, fetchVars>>

CallQueryStep ==
    /\ mode = "serializer"
    /\ call = "removeNullishInObject"
    /\ call' = "getQueryBeforeFetch"
    /\ ctx' = getQueryBeforeFetch(Given(input), ctx)
    /\ UNCHANGED <<mode, input, qsOut, parsed, objOut, token, hookVars, fetchVars>>

CallJsonStep ==
    /\ mode = "serializer"
    /\ call = "getQueryBeforeFetch"
    /\ call' = "getJsonFormatBeforeFetch"
    /\ ctx' = getJsonFormatBeforeFetch(Given(input), ctx)
    /\ UNCHANGED <<mode, input, qsOut, parsed, objOut, token, hookVars, fetchVars>>

NextSerializer ==
    \/ CallGenerateQueryString
    \/ CallParseQueryString
    \/ CallRemoveNullishInObject
    \/ CallQueryStep
    \/ CallJsonStep

SpecSerializer == InitSerializer /\ [][NextSerializer]_vars

(***************************************************************************)
(* Hooks harness: the after-response chain and the error-hook chain built  *)
(* from chosen options are applied to a chosen context.                    *)
(***************************************************************************)
K_id == <<"i", "d">>
K_title == <<"t", "i", "t", "l", "e">>
K_views == <<"v", "i", "e", "w", "s">>
K_message == <<"m", "e", "s", "s", "a", "g", "e">>
K_body == <<"b", "o", "d", "y">>

\* zod.object({ id: zod.string(), title: zod.string(), views: zod.number() })
postsSchema ==
    ZObject(<< [k |-> K_id, v |-> ZString], [k |-> K_title, v |-> ZString],
               [k |-> K_views, v |-> ZNumber] >>)

\* an error schema a caller may pass: zod.object({ message: zod.string() })
MessageSchema == ZObject(<< [k |-> K_message, v |-> ZString] >>)

ResponseSchemas == { NoSchema, postsSchema, ZArray(postsSchema) }

ErrorSchemas == { NoSchema, MessageSchema, ZString }

Post42 ==
    JObj(<< [k |-> K_id, v |-> JStr(<<"4", "2">>)], [k |-> K_title, v |-> JStr(<<"t">>)],
            [k |-> K_views, v |-> JNum(7)] >>)
PostExtra == JObj(Append(Post42.o, [k |-> K_body, v |-> JStr(<<"x">>)]))
PostViewsString ==
    JObj(<< [k |-> K_id, v |-> JStr(<<"4", "2">>)], [k |-> K_title, v |-> JStr(<<"t">>)],
            [k |-> K_views, v |-> JStr(<<"7">>)] >>)
PostNoTitle ==
    JObj(<< [k |-> K_id, v |-> JStr(<<"4", "2">>)], [k |-> K_views, v |-> JNum(7)] >>)
ErrMessage == JObj(<< [k |-> K_message, v |-> JStr(<<"x">>)] >>)
ErrMessageNumber == JObj(<< [k |-> K_message, v |-> JNum(1)] >>)

TextMessage == <<"{", "\"", "m", "e", "s", "s", "a", "g", "e", "\"", ":", "\"", "x", "\"", "}">>
TextMessageSpaced == <<"{", " ", "\"", "m", "e", "s", "s", "a", "g", "e", "\"", " ", ":", " ", "\"", "x", "\"", " ", "}">>
TextMessageNumber == <<"{", "\"", "m", "e", "s", "s", "a", "g", "e", "\"", ":", "1", "}">>
TextTruncated == <<"{", "\"", "m", "e", "s", "s", "a", "g", "e", "\"", ":", "\"", "x", "\"">>
TextQuoted == <<"\"", "x", "\"">>
TextHtml == <<"<", "h", "t", "m", "l", ">">>

\* the data a response or error context can hold
ContextData ==
    { Post42, PostExtra, PostViewsString, PostNoTitle,
      JArr(<<>>), JArr(<< Post42 >>), JArr(<< Post42, PostViewsString >>),
      ErrMessage, ErrMessageNumber, JNull, JUndef,
      JStr(TextMessage), JStr(TextMessageSpaced), JStr(TextMessageNumber),
      JStr(TextTruncated), JStr(TextQuoted), JStr(TextHtml), JStr(<<>>) }

AfterContext(data, response) ==
    [data |-> data, response |-> response,
     log |-> <<>>, raised |-> "none", console |-> <<>>]

ErrorContext(data, response, error) ==
    [data |-> data, response |-> response, error |-> error,
     log |-> <<>>, raised |-> "none", console |-> <<>>]

InitHooks ==
    /\ mode = "hooks"
    /\ input = <<>> /\ call = "none" /\ qsOut = <<>> /\ parsed = <<>> /\ objOut = <<>>
    /\ token = SourceToken
    /\ ctx = NewContext(PostsPath, HarnessHeaders)
    /\ envMode \in { "development", "production" }
    /\ \E rs \in ResponseSchemas, es \in ErrorSchemas :
           options = [DefaultOptions EXCEPT !.responseSchema = rs,
                                            !.errorResponseSchema = es]
    /\ hookIn = NoContext
    /\ hookOut = NoContext
    /\ request = NoRequest
    /\ NoInvocation

CallAfterFetch ==
    /\ mode = "hooks"
    /\ call = "none"
    /\ \E data \in ContextData, response \in { Response(TRUE, 200), Response(FALSE, 404) } :
           /\ hookIn' = AfterContext(data, response)
           /\ hookOut' = getAfterFetch(options, AfterContext(data, response))
    /\ call' = "getAfterFetch"
    /\ UNCHANGED <<mode, input, qsOut, parsed, objOut, envMode, options, token, ctx, fetchVars>>

CallOnFetchError ==
    /\ mode = "hooks"
    /\ call = "none"
    /\ \E data \in ContextData,
          response \in { NullResponse, Response(FALSE, 500), Response(TRUE, 200) },
          error \in ApiErrorStatus \cup { "Error" } :
           /\ hookIn' = ErrorContext(data, response, error)
           /\ hookOut' = getOnFetchError(options, ErrorContext(data, response, error))
    /\ call' = "getOnFetchError"
    /\ UNCHANGED <<mode, input, qsOut, parsed, objOut, envMode, options, token, ctx, fetchVars>>

NextHooks == CallAfterFetch \/ CallOnFetchError

SpecHooks == InitHooks /\ [][NextHooks]_vars

(***************************************************************************)
(* The posts resource module: each operation builds a fetch with useApi    *)
(* and picks the method.                                                   *)
(***************************************************************************)
Slash == <<"/">>

Fetch(op, id, opts, path, method) ==
    [op |-> op, id |-> id, options |-> opts, path |-> path, method |-> method,
     headers |-> <<>>]

getPosts ==
    Fetch("getPosts", <<>>, [DefaultOptions EXCEPT !.responseSchema = ZArray(postsSchema)],
          PostsPath, "GET")

\* mutant: the schema of getPosts is used
getPost_ArraySchema(id) ==
    Fetch("getPost", id, [DefaultOptions EXCEPT !.responseSchema = ZArray(postsSchema)],
          PostsPath \o Slash \o id, "GET")

getPost(id) ==
    Fetch("getPost", id, [DefaultOptions EXCEPT !.responseSchema = postsSchema],
          PostsPath \o Slash \o id, "GET")

postPosts(newPosts) ==
    Fetch("postPosts", <<>>,
          [DefaultOptions EXCEPT !.responseSchema = postsSchema, !.json = Given(newPosts)],
          PostsPath, "POST")

updatePosts(id, newPosts) ==
    Fetch("updatePosts", id,
          [DefaultOptions EXCEPT !.responseSchema = postsSchema, !.json = Given(newPosts)],
          PostsPath \o Slash \o id, "PATCH")

deletePosts(id) ==
    Fetch("deletePosts", id, [DefaultOptions EXCEPT !.responseSchema = postsSchema],
          PostsPath \o Slash \o id, "DELETE")

PostIds == { <<"4", "2">>, <<"7">> }

\* a PostsSchema value handed to postPosts and updatePosts
NewPost ==
    << [k |-> K_id, v |-> JStr(<<"7">>)], [k |-> K_title, v |-> JStr(<<>>)],
       [k |-> K_views, v |-> JNum(0)] >>

PostsRequests ==
    { getPosts, postPosts(NewPost) }
        \cup { getPost(id) : id \in PostIds }
        \cup { updatePosts(id, NewPost) : id \in PostIds }
        \cup { deletePosts(id) : id \in PostIds }

(***************************************************************************)
(* Fetch harness: a fetch built by useApi is executed.  The lifecycle is   *)
(* the one of createFetch as useApi configures it: execute() runs the      *)
(* before-request chain, issues the network call unless the context was    *)
(* cancelled, hands an ok response to the after-response chain, and hands  *)
(* a failed call, or a failure raised while handling the response, to the  *)
(* error-hook chain.                                                       *)
(***************************************************************************)
MaxExecutions == 2

\* mutant: immediate: true
Immediate_True == TRUE

\* immediate: false
Immediate == FALSE

\* `${import.meta.env.VITE_APP_API}`
ViteAppApi == <<"h", "t", "t", "p", ":", "/", "/", "a", "p", "i">>

QuerySamples ==
    { Absent, Given(<<>>), Given(<< [k |-> <<"a">>, v |-> JStr(<<>>)] >>),
      Given(<< [k |-> <<"a">>, v |-> JStr(<<"2">>)],
               [k |-> <<"b">>, v |-> JArr(<< JStr(<<"2">>), JNum(0) >>)] >>) }

JsonSamples ==
    { Absent, Given(<<>>),
      Given(<< [k |-> <<"a">>, v |-> JStr(<<>>)], [k |-> <<"b">>, v |-> JNum(17)] >>) }

\* headers the caller passes with the fetch
HeaderSamples ==
    { <<>>,
      << Header("Accept", <<"*/*">>), Header("Authorization", <<"Basic">>),
         Header("Content-Type", <<"text/plain">>) >> }

\* fetches built directly with useApi(options)(path, { headers }).get()
GenericRequests ==
    { [op |-> "useApi", id |-> <<>>,
       options |-> [isBearerTokenRequired |-> auth, query |-> q, json |-> j,
                    responseSchema |-> rs, errorResponseSchema |-> es],
       path |-> PostsPath, method |-> "GET", headers |-> h] :
        auth \in BOOLEAN, q \in QuerySamples, j \in JsonSamples,
        rs \in { NoSchema, postsSchema }, es \in { NoSchema, MessageSchema },
        h \in HeaderSamples }

\* what the external store (authStore, localStorage) can hold for the token;
\* the source stands in for the lookup with the constant SourceToken
TokenSource == { SourceToken, JStr(<<>>), JUndef }

\* bodies a server answers with, as response.json() reads them
NetworkData == { Post42, PostViewsString, JArr(<< Post42 >>), ErrMessage, JStr(TextHtml), JNull }

InitFetch ==
    /\ mode = "fetch"
    /\ input = <<>> /\ call = "none" /\ qsOut = <<>> /\ parsed = <<>> /\ objOut = <<>>
    /\ envMode = "development"
    /\ hookIn = NoContext
    /\ hookOut = NoContext
    /\ request \in PostsRequests \cup GenericRequests
    /\ options = request.options
    /\ token \in TokenSource
    /\ ctx = NewContext(ViteAppApi \o request.path, request.headers)
    /\ NoInvocation

harnessVars == <<mode, input, call, qsOut, parsed, objOut, envMode, options, hookIn, hookOut,
                 request>>

\* execute(): the context is built and handed to the before-request chain
Execute ==
    /\ mode = "fetch"
    /\ phase \in { "idle", "done" }
    /\ executions < MaxExecutions
    /\ \E byCaller \in BOOLEAN :
           /\ byCaller \/ Immediate
           /\ explicit' = byCaller
    /\ executions' = executions + 1
    /\ ctx' = getBeforeFetch(options, NewContext(ViteAppApi \o request.path, request.headers))
    /\ events' = << "beforeFetch" >>
    /\ sent' = <<>>
    /\ pending' = NoPending
    /\ afterCtx' = NoContext
    /\ errorCtx' = NoContext
    /\ outcome' = "none"
    /\ phase' = "beforeFetch"
    /\ UNCHANGED <<harnessVars, token>>

\* after the before-request chain: a cancelled context ends the invocation,
\* any other is fetched
Dispatch ==
    /\ mode = "fetch"
    /\ phase = "beforeFetch"
    /\ IF ctx.cancelled
       THEN /\ phase' = "done"
            /\ outcome' = "cancelled"
            /\ UNCHANGED <<sent, events>>
       ELSE /\ phase' = "fetching"
            /\ sent' = Append(sent, [url |-> ctx.url, method |-> request.method,
                                     headers |-> ctx.headers, body |-> ctx.body])
            /\ events' = Append(events, "fetch")
            /\ UNCHANGED outcome
    /\ UNCHANGED <<harnessVars, token, ctx, executions, explicit, pending, afterCtx, errorCtx>>

\* a response arrives and its body is read
Respond ==
    /\ mode = "fetch"
    /\ phase = "fetching"
    /\ \E data \in NetworkData, ok \in BOOLEAN :
           IF ok
           THEN /\ pending' = [data |-> data, response |-> Response(TRUE, 200),
                               error |-> "none"]
                /\ phase' = "afterFetch"
           ELSE /\ pending' = [data |-> data, response |-> Response(FALSE, 500),
                               error |-> "Error"]
                /\ phase' = "onFetchError"
    /\ UNCHANGED <<harnessVars, token, ctx, executions, explicit, events, sent, afterCtx,
                   errorCtx, outcome>>

\* the call fails: the network is down, the 30 s timeout aborts the call, or
\* the body of the response is not JSON
Fail ==
    /\ mode = "fetch"
    /\ phase = "fetching"
    /\ \E failure \in { [response |-> NullResponse, error |-> "TypeError: Failed to fetch"],
                        [response |-> NullResponse, error |-> "AbortError"],
                        [response |-> Response(TRUE, 200), error |-> "SyntaxError"] } :
           pending' = [data |-> JNull, response |-> failure.response,
                       error |-> failure.error]
    /\ phase' = "onFetchError"
    /\ UNCHANGED <<harnessVars, token, ctx, executions, explicit, events, sent, afterCtx,
                   errorCtx, outcome>>

\* afterFetch: the after-response chain; what it raises goes to the error hook
AfterFetch ==
    /\ mode = "fetch"
    /\ phase = "afterFetch"
    /\ LET out == getAfterFetch(options, AfterContext(pending.data, pending.response))
       IN  /\ afterCtx' = out
           /\ IF out.raised = "none"
              THEN /\ phase' = "done"
                   /\ outcome' = "data"
                   /\ UNCHANGED pending
              ELSE /\ phase' = "onFetchError"
                   /\ pending' = [pending EXCEPT !.error = out.raised]
                   /\ UNCHANGED outcome
    /\ events' = Append(events, "afterFetch")
    /\ UNCHANGED <<harnessVars, token, ctx, executions, explicit, sent, errorCtx>>

\* onFetchError: the error-hook chain; the caller then sees the error
OnFetchError ==
    /\ mode = "fetch"
    /\ phase = "onFetchError"
    /\ LET out == getOnFetchError(options,
                      ErrorContext(pending.data, pending.response, pending.error))
       IN  /\ errorCtx' = out
           /\ outcome' = IF out.raised = "none" THEN "error" ELSE "hook failure"
    /\ events' = Append(events, "onFetchError")
    /\ phase' = "done"
    /\ UNCHANGED <<harnessVars, token, ctx, executions, explicit, sent, pending, afterCtx>>

\* between invocations the external store gets or loses its token
StoreChanges ==
    /\ mode = "fetch"
    /\ phase = "done"
    /\ \E t \in TokenSource : t # token /\ token' = t
    /\ phase' = "idle"
    /\ ctx' = NewContext(ViteAppApi \o request.path, request.headers)
    /\ explicit' = FALSE
    /\ events' = <<>>
    /\ sent' = <<>>
    /\ pending' = NoPending
    /\ afterCtx' = NoContext
    /\ errorCtx' = NoContext
    /\ outcome' = "none"
    /\ UNCHANGED <<harnessVars, executions>>

Next ==
    \/ Execute
    \/ Dispatch
    \/ Respond
    \/ Fail
    \/ AfterFetch
    \/ OnFetchError
    \/ StoreChanges

Spec == InitFetch /\ [][Next]_vars

(***************************************************************************)
(* Properties of the serializer                                            *)
(***************************************************************************)
EmptyValue(v) == v = JStr(<<>>) \/ v = JNull \/ v = JUndef

AllEmptyValues(m) == \A i \in 1..Len(m) : EmptyValue(m[i].v)

Reached(c) ==
    LET order == << "none", "generateQueryString", "parse", "removeNullishInObject",
                    "getQueryBeforeFetch", "getJsonFormatBeforeFetch" >>
        at(x) == CHOOSE i \in 1..Len(order) : order[i] = x
    IN  at(call) >= at(c)

\* C4: for a mapping all of whose values are "", null or undefined,
\* generateQueryString returns the empty string, the query step leaves the
\* url as it was, removeNullishInObject returns a mapping with no keys and
\* the body step sets the body to the JSON encoding of the empty mapping.
C4_EmptyValuesSerializeToNothing ==
    (mode = "serializer" /\ AllEmptyValues(input)) =>
        /\ Reached("generateQueryString") => qsOut = <<>>
        /\ Reached("removeNullishInObject") => objOut = <<>>
        /\ Reached("getQueryBeforeFetch") => ctx.url = PostsPath
        /\ Reached("getJsonFormatBeforeFetch") =>
               ctx.body = [present |-> TRUE, text |-> <<"{", "}">>]

C4_Witness ==
    /\ mode = "serializer"
    /\ input = << [k |-> <<"a">>, v |-> JStr(<<>>)], [k |-> <<"b">>, v |-> JNull] >>
    /\ call = "getJsonFormatBeforeFetch"
    /\ qsOut = <<>> /\ objOut = <<>> /\ ctx.url = PostsPath
    /\ ctx.body.text = <<"{", "}">>

FalsyScalar(v) ==
    v = JStr(<<>>) \/ v = JNum(0) \/ v = JBool(FALSE) \/ v = JNull \/ v = JUndef

KeyIndex(m, k) == CHOOSE i \in 1..Len(m) : m[i].k = k

NonEmptyString(v) == v.t = "string" /\ v.s # <<>>

\* the mappings of C7: scalars are non-empty strings, arrays hold non-empty
\* strings
RoundTripDomain(m) ==
    \A i \in 1..Len(m) :
        \/ NonEmptyString(m[i].v)
        \/ /\ IsArray(m[i].v)
           /\ \A x \in 1..Len(m[i].v.a) : NonEmptyString(m[i].v.a[x])

\* C7 as stated: for every mapping whose scalars are non-empty strings and
\* whose arrays hold non-empty strings, reading back the query string that
\* generateQueryString produced yields the mapping.
C7_RoundTripAsStated ==
    (mode = "serializer" /\ Reached("parse") /\ RoundTripDomain(input)) =>
        parsed = input

AtLeastTwoInArrays(m) ==
    \A i \in 1..Len(m) : IsArray(m[i].v) => Len(m[i].v.a) >= 2

\* C7 (amended): the round trip holds when, in addition, every array has at
\* least two elements (an array of one element reads back as a scalar and
\* an empty array leaves no trace of its key).
C7_RoundTripTwoOrMore ==
    (mode = "serializer" /\ Reached("parse")
        /\ RoundTripDomain(input) /\ AtLeastTwoInArrays(input)) =>
        parsed = input

C7_Witness ==
    /\ mode = "serializer"
    /\ input = << [k |-> <<"a">>, v |-> JStr(<<"a", " ", "&">>)],
                  [k |-> <<"b">>, v |-> JArr(<< JStr(<<"2">>), JStr(<<"3">>) >>)] >>
    /\ call = "parse"
    /\ qsOut = <<"?", "a", "=", "a", "+", "%", "2", "6", "&",
                 "b", "=", "2", "&", "b", "=", "3">>
    /\ parsed = input

(***************************************************************************)
(* Properties of the after-response chain and of the error-hook chain      *)
(***************************************************************************)
\* the sample data that has the shape a schema describes
DataOfShape(schema) ==
    IF schema = postsSchema THEN { Post42, PostExtra }
    ELSE IF schema = ZArray(postsSchema) THEN { JArr(<<>>), JArr(<< Post42 >>) }
    ELSE IF schema = MessageSchema THEN { ErrMessage }
    ELSE IF schema = ZString THEN { d \in ContextData : d.t = "string" }
    ELSE {}

\* a context without the history fields of the model
Returned(c) == [c EXCEPT !.log = <<>>, !.console = <<>>]

\* C2: with a success schema and an ok response, the after-response chain
\* raises TypeError(TYPE_ERROR) exactly when the data does not match the
\* schema, and otherwise returns the context with its data unchanged,
\* whatever the error schema is.
C2_SuccessSchemaDecidesTypeError ==
    (mode = "hooks" /\ call = "getAfterFetch"
        /\ options.responseSchema # NoSchema /\ hookIn.response.ok) =>
        /\ hookOut.raised \in { "none", "TypeError: TYPE_ERROR" }
        /\ hookOut.raised = "TypeError: TYPE_ERROR"
               <=> hookIn.data \notin DataOfShape(options.responseSchema)
        /\ hookIn.data \in DataOfShape(options.responseSchema) =>
               Returned(hookOut) = hookIn

C2_Witness ==
    /\ mode = "hooks" /\ call = "getAfterFetch"
    /\ options.responseSchema = postsSchema
    /\ options.errorResponseSchema = MessageSchema
    /\ hookIn.response.ok
    /\ hookIn.data = PostViewsString
    /\ hookOut.raised = "TypeError: TYPE_ERROR"

JsonTexts == { TextMessage, TextMessageSpaced, TextMessageNumber, TextQuoted }

\* the sample data the error hook finds to match, string data being parsed
\* first
ErrorDataOfShape(schema) ==
    IF schema = MessageSchema
    THEN { ErrMessage, JStr(TextMessage), JStr(TextMessageSpaced) }
    ELSE IF schema = ZString THEN { JStr(TextQuoted) }
    ELSE {}

C9_ErrorHookNeverRaises ==
    (mode = "hooks" /\ call = "getOnFetchError") =>
        /\ hookOut.raised = "none"
        /\ Returned(hookOut) = hookIn

(***************************************************************************)
(* Properties of the before-request chain and of the fetch lifecycle       *)
(***************************************************************************)
\* the context execute() hands to the before-request chain
ContextBefore == NewContext(ViteAppApi \o request.path, request.headers)

\* the value of the Authorization header, if there is one
AuthorizationOf(headers) ==
    IF HasHeader(headers, "Authorization")
    THEN << HeaderValue(headers, "Authorization") >> ELSE <<>>

\* C1: when the chain is built with isBearerTokenRequired = true and there is
\* no token, the auth step cancels the context, adds no Authorization header
\* and the invocation issues no network call (and raises nothing); when
\* there is a token the context is not cancelled and the headers hold
\* Authorization = "Bearer <token>".
C1_NoTokenCancelsTokenAddsBearer ==
    (mode = "fetch" /\ phase # "idle" /\ options.isBearerTokenRequired) =>
        IF token = SourceToken
        THEN /\ ~ctx.cancelled
             /\ AuthorizationOf(ctx.headers) =
                    << <<"B", "e", "a", "r", "e", "r", " ", "<", "t", "o", "k", "e", "n", ">">> >>
        ELSE /\ ctx.cancelled
             /\ ctx.raised = "none"
             /\ AuthorizationOf(ctx.headers) = AuthorizationOf(request.headers)
             /\ sent = <<>>
             /\ events = << "beforeFetch" >>
             /\ outcome \in { "none", "cancelled" }

C1_Witness ==
    /\ mode = "fetch"
    /\ options.isBearerTokenRequired
    /\ token = JStr(<<>>)
    /\ phase = "done"
    /\ ctx.cancelled
    /\ sent = <<>>
    /\ outcome = "cancelled"

\* C8: getPost(id) issues a GET to /posts/<id> with no body, no query string
\* and no Authorization header, and an ok response passes the after-response
\* chain exactly when its data is one post (an array of posts does not).
C8_GetPostRequestAndSchema ==
    (mode = "fetch" /\ request.op = "getPost") =>
        /\ \A i \in 1..Len(sent) :
               /\ sent[i].method = "GET"
               /\ sent[i].url = ViteAppApi \o <<"/", "p", "o", "s", "t", "s", "/">> \o request.id
               /\ ~sent[i].body.present
               /\ ~HasHeader(sent[i].headers, "Authorization")
        /\ phase = "fetching" => Len(sent) = 1
        /\ afterCtx # NoContext =>
               (afterCtx.raised = "none" <=> pending.data \in { Post42, PostExtra })

C8_Witness ==
    /\ mode = "fetch"
    /\ request.op = "getPost" /\ request.id = <<"4", "2">>
    /\ phase = "done"
    /\ Len(sent) = 1
    /\ sent[1].url = ViteAppApi \o <<"/", "p", "o", "s", "t", "s", "/", "4", "2">>
    /\ pending.data = Post42
    /\ outcome = "data"

\* C10: for every combination of the auth, query and json options the chain
\* applies the auth, query and body steps in that order and returns the
\* context; an inert step leaves url, headers and body as they were, the
\* auth step touches only the Authorization header, the query step only
\* appends to the url, the body step touches only the Content-Type header
\* and the body, and no header is lost.
C10_StepsInOrderEachOwnPart ==
    (mode = "fetch" /\ phase # "idle") =>
        LET authActive  == options.isBearerTokenRequired /\ token = SourceToken
            queryActive == options.query.present /\ options.query.value # <<>>
            jsonActive  == options.json.present
            before      == ContextBefore
        IN  /\ ctx.log = << "getAuthorizationBeforeFetch", "getQueryBeforeFetch",
                            "getJsonFormatBeforeFetch" >>
            /\ ctx.raised = "none"
            /\ ~queryActive => ctx.url = before.url
            /\ Len(ctx.url) >= Len(before.url)
            /\ SubSeq(ctx.url, 1, Len(before.url)) = before.url
            /\ ~jsonActive => ctx.body = before.body
            /\ jsonActive => ctx.body.present
            /\ \A i \in 1..Len(before.headers) :
                   LET h == before.headers[i]
                   IN  /\ HasHeader(ctx.headers, h.name)
                       /\ \/ HeaderValue(ctx.headers, h.name) = h.value
                          \/ h.name = "Authorization" /\ authActive
                          \/ h.name = "Content-Type" /\ jsonActive
            /\ \A i \in 1..Len(ctx.headers) :
                   LET h == ctx.headers[i]
                   IN  \/ HasHeader(before.headers, h.name)
                       \/ h.name = "Authorization" /\ authActive
                       \/ h.name = "Content-Type" /\ jsonActive
            /\ authActive =>
                   AuthorizationOf(ctx.headers) = << Bearer \o SourceToken.s >>
            /\ jsonActive =>
                   HeaderValue(ctx.headers, "Content-Type") = <<"application/json">>
            /\ ctx.cancelled <=> (options.isBearerTokenRequired /\ token # SourceToken)

C10_Witness ==
    /\ mode = "fetch"
    /\ phase = "beforeFetch"
    /\ options.isBearerTokenRequired /\ token = SourceToken
    /\ options.query.present /\ Len(options.query.value) = 2
    /\ options.json.present /\ Len(options.json.value) = 2
    /\ request.headers # <<>>
    /\ Len(ctx.log) = 3
    /\ ctx.url # ContextBefore.url
    /\ ctx.body.present
    /\ HeaderValue(ctx.headers, "Accept") = <<"*/*">>

Ran(e) == \E i \in 1..Len(events) : events[i] = e

\* C6 as stated: an invocation that issued its network call runs exactly one
\* of the after-response chain and the error-hook chain.
C6_ExactlyOneHookChainAsStated ==
    (mode = "fetch" /\ phase = "done" /\ sent # <<>>) =>
        (Ran("afterFetch") <=> ~Ran("onFetchError"))

\* the orders in which an invocation does things
EventOrders ==
    { <<>>, << "beforeFetch" >>, << "beforeFetch", "fetch" >>,
      << "beforeFetch", "fetch", "afterFetch" >>,
      << "beforeFetch", "fetch", "onFetchError" >>,
      << "beforeFetch", "fetch", "afterFetch", "onFetchError" >> }

\* C6 (amended): an invocation runs the before-request chain, then at most
\* one network call, then the after-response chain (for an ok response), the
\* error-hook chain (for a failed call), or both in that order when the
\* after-response chain raises; nothing is fetched before the fetch is
\* explicitly executed, no second call is issued after a failure, and the
\* failure is what the caller sees.
C6_BeforeThenOneCallThenHooks ==
    mode = "fetch" =>
        /\ events \in EventOrders
        /\ Len(sent) <= 1
        /\ sent # <<>> <=> Ran("fetch")
        /\ sent # <<>> => explicit
        /\ phase = "idle" => events = <<>>
        /\ Ran("afterFetch") => pending.response.ok
        /\ (Ran("afterFetch") /\ Ran("onFetchError")) =>
               afterCtx.raised = "TypeError: TYPE_ERROR"
        /\ (phase = "done" /\ sent # <<>>) =>
               /\ Ran("afterFetch") \/ Ran("onFetchError")
               /\ Ran("onFetchError") <=> outcome \in { "error", "hook failure" }
               /\ ~Ran("onFetchError") <=> (outcome = "data" /\ afterCtx.raised = "none")

C6_Witness ==
    /\ mode = "fetch"
    /\ phase = "done"
    /\ events = << "beforeFetch", "fetch", "afterFetch", "onFetchError" >>
    /\ Len(sent) = 1
    /\ executions = 2
    /\ outcome = "error"

====
